---- MODULE Spec2Model ----
(***************************************************************************)
(* Model of resolve.py: the DNS wire-format codec (header, qname, question *)
(* and answer records, message parsing) and the run of main() around it.   *)
(*                                                                         *)
(* Python values are modelled as follows.                                  *)
(*   bytes   a sequence of integers 0..255                                 *)
(*   str     a sequence of Unicode code points                             *)
(*   a call  a record [ok, val, exc]: ok = TRUE and val the returned value,*)
(*           or ok = FALSE and exc the exception that left the call        *)
(* Python indices are 0-based; At and Slice translate them.                *)
(***************************************************************************)
EXTENDS Integers, Sequences, FiniteSets, TLC

\* ------------------------------------------------------------------------
\* Bounds of the model
\* ------------------------------------------------------------------------
MaxLen == 3
MaxQ == 2
MaxA == 2
MaxCut == 8

\* ------------------------------------------------------------------------
\* Python primitives
\* ------------------------------------------------------------------------
Ok(v) == [ok |-> TRUE, val |-> v, exc |-> "none"]

Raise(e) == [ok |-> FALSE, val |-> <<>>, exc |-> e]

Min(a, b) == IF a < b THEN a ELSE b

\* s[i] for 0 <= i < len(s)
At(s, i) == s[i + 1]

\* s[a:b] for 0 <= a, 0 <= b: the slice is clamped to the sequence, never an error
Slice(s, a, b) == SubSeq(s, a + 1, Min(b, Len(s)))

\* s[a:]
SliceFrom(s, a) == SubSeq(s, a + 1, Len(s))

\* pack('!B', v)
pack_B(v) == IF v \in 0..255 THEN Ok(<<v>>) ELSE Raise("struct.error")

\* pack('!H', v), big-endian
pack_H(v) == IF v \in 0..65535 THEN Ok(<<v \div 256, v % 256>>) ELSE Raise("struct.error")

\* unpack of one big-endian unsigned 16-bit field
unpack_H(b) == At(b, 0) * 256 + At(b, 1)

\* unpack of one big-endian unsigned 32-bit field (the inputs keep it below 2^31,
\* the largest integer TLC represents)
unpack_I(b) == ((At(b, 0) * 256 + At(b, 1)) * 256 + At(b, 2)) * 256 + At(b, 3)

\* the code point of '.'
DOT == 46

\* str.encode() of one code point (UTF-8); lone surrogates cannot be encoded
EncodeChar(cp) ==
    IF cp < 128 THEN Ok(<<cp>>)
    ELSE IF cp < 2048 THEN Ok(<<192 + (cp \div 64), 128 + (cp % 64)>>)
    ELSE IF cp < 65536 THEN
        IF cp \in 55296..57343 THEN Raise("UnicodeEncodeError")
        ELSE Ok(<<224 + (cp \div 4096), 128 + ((cp \div 64) % 64), 128 + (cp % 64)>>)
    ELSE Ok(<<240 + (cp \div 262144), 128 + ((cp \div 4096) % 64),
              128 + ((cp \div 64) % 64), 128 + (cp % 64)>>)

RECURSIVE Encode(_)
\* str.encode(): the encodings of the characters, concatenated (computed by halves
\* to keep the evaluation shallow); the first character that cannot be encoded
\* raises
Encode(s) ==
    IF Len(s) = 0 THEN Ok(<<>>)
    ELSE IF Len(s) = 1 THEN EncodeChar(s[1])
    ELSE LET m == Len(s) \div 2
             l == Encode(SubSeq(s, 1, m))
             r == Encode(SubSeq(s, m + 1, Len(s)))
         IN IF ~l.ok THEN l
            ELSE IF ~r.ok THEN r
            ELSE Ok(l.val \o r.val)

IsCont(b) == b \in 128..191

RECURSIVE DecodeFrom(_, _, _)
\* the UTF-8 decoder at byte k of b (1-based), with the code points decoded so far
DecodeFrom(b, k, done) ==
    IF k > Len(b) THEN Ok(done)
    ELSE IF b[k] < 128 THEN DecodeFrom(b, k + 1, Append(done, b[k]))
    ELSE IF b[k] \in 194..223 THEN
        IF Len(b) >= k + 1 /\ IsCont(b[k + 1])
        THEN DecodeFrom(b, k + 2, Append(done, (b[k] - 192) * 64 + (b[k + 1] - 128)))
        ELSE Raise("UnicodeDecodeError")
    ELSE IF b[k] \in 224..239 THEN
        IF /\ Len(b) >= k + 2
           /\ IsCont(b[k + 1]) /\ IsCont(b[k + 2])
           /\ (b[k] = 224 => b[k + 1] >= 160)
           /\ (b[k] = 237 => b[k + 1] <= 159)
        THEN DecodeFrom(b, k + 3,
                 Append(done, ((b[k] - 224) * 64 + (b[k + 1] - 128)) * 64
                              + (b[k + 2] - 128)))
        ELSE Raise("UnicodeDecodeError")
    ELSE IF b[k] \in 240..244 THEN
        IF /\ Len(b) >= k + 3
           /\ IsCont(b[k + 1]) /\ IsCont(b[k + 2]) /\ IsCont(b[k + 3])
           /\ (b[k] = 240 => b[k + 1] >= 144)
           /\ (b[k] = 244 => b[k + 1] <= 143)
        THEN DecodeFrom(b, k + 4,
                 Append(done, (((b[k] - 240) * 64 + (b[k + 1] - 128)) * 64
                               + (b[k + 2] - 128)) * 64 + (b[k + 3] - 128)))
        ELSE Raise("UnicodeDecodeError")
    ELSE Raise("UnicodeDecodeError")

RECURSIVE Decode(_)
\* bytes.decode() (UTF-8, strict). Short input is decoded byte by byte; longer input
\* is cut at a byte of its second half that starts a character (one that is no
\* continuation byte) and decoded by halves, to keep the evaluation shallow: the
\* input is valid exactly when both halves are. Four or more continuation bytes in a
\* row belong to no character.
Decode(b) ==
    IF Len(b) <= 4 THEN DecodeFrom(b, 1, <<>>)
    ELSE LET h      == Len(b) \div 2
             starts == {i \in (h + 1)..Len(b) : ~IsCont(b[i])}
         IN IF starts = {}
            THEN IF Len(b) - h >= 4 THEN Raise("UnicodeDecodeError")
                 ELSE DecodeFrom(b, 1, <<>>)
            ELSE LET m == CHOOSE i \in starts : \A j \in starts : i <= j
                     l == Decode(SubSeq(b, 1, m - 1))
                     r == Decode(SubSeq(b, m, Len(b)))
                 IN IF ~l.ok THEN l
                    ELSE IF ~r.ok THEN r
                    ELSE Ok(l.val \o r.val)

RECURSIVE Split(_)
\* domain.split('.'): the list of labels, empty labels included
Split(s) ==
    IF \A i \in 1..Len(s) : s[i] # DOT THEN <<s>>
    ELSE LET k == CHOOSE i \in 1..Len(s) : s[i] = DOT /\ \A j \in 1..(i - 1) : s[j] # DOT
         IN <<SubSeq(s, 1, k - 1)>> \o Split(SubSeq(s, k + 1, Len(s)))

RECURSIVE Digits(_)
\* str(n) for n >= 0
Digits(n) == IF n < 10 THEN <<48 + n>> ELSE Digits(n \div 10) \o <<48 + (n % 10)>>

RECURSIVE Join(_)
\* '.'.join(parts)
Join(parts) ==
    IF parts = <<>> THEN <<>>
    ELSE IF Len(parts) = 1 THEN parts[1]
    ELSE parts[1] \o <<DOT>> \o Join(Tail(parts))

\* str.lower() on ASCII text
Lower(s) == [i \in 1..Len(s) |-> IF s[i] \in 65..90 THEN s[i] + 32 ELSE s[i]]

\* the string literals the code compares against
STR_query == <<113, 117, 101, 114, 121>>

STR_iquery == <<105>> \o STR_query

STR_status == <<115, 116, 97, 116, 117, 115>>

\* ------------------------------------------------------------------------
\* make_header
\* ------------------------------------------------------------------------
\* mutant of OpcodeBits: the opcode is compared as given, without lower()
OpcodeBits_NoLower(opcode) ==
    IF opcode = STR_query THEN 0
    ELSE IF opcode = STR_iquery THEN 1
    ELSE 2

\* the if/elif/else over the lowered opcode
OpcodeBits(opcode) ==
    LET o == Lower(opcode) IN
    IF o = STR_query THEN 0
    ELSE IF o = STR_iquery THEN 1
    ELSE 2

\* mutant of LineTwo: rd shifted to bit 7, the place of ra
LineTwo_RdAtBit7(opcode, recursion) ==
    LET rd == IF recursion THEN 1 ELSE 0
    IN OpcodeBits(opcode) * 2048 + rd * 128

\* line_two = (qr << 15) + (opcode << 11) + (tc << 9) + (rd << 8)
LineTwo(opcode, recursion) ==
    LET qr == 0
        tc == 0
        rd == IF recursion THEN 1 ELSE 0
    IN qr * 32768 + OpcodeBits(opcode) * 2048 + tc * 512 + rd * 256

RECURSIVE PackHs(_)
\* pack('!HH...', v1, v2, ...): fails as a whole when one field is out of range
PackHs(vs) ==
    IF vs = <<>> THEN Ok(<<>>)
    ELSE LET h == pack_H(Head(vs)) IN
         IF ~h.ok THEN h
         ELSE LET t == PackHs(Tail(vs)) IN
              IF ~t.ok THEN t ELSE Ok(h.val \o t.val)

make_header(msg_id, qdcount, opcode, recursion) ==
    PackHs(<<msg_id, LineTwo(opcode, recursion), qdcount, 0, 0, 0>>)

\* ------------------------------------------------------------------------
\* make_qname
\* ------------------------------------------------------------------------
RECURSIVE EncodeLabels(_)
\* the loop body of make_qname over the labels: pack('!B', len(label)) + label.encode()
EncodeLabels(labels) ==
    IF labels = <<>> THEN Ok(<<>>)
    ELSE LET l == pack_B(Len(Head(labels))) IN
         IF ~l.ok THEN l
         ELSE LET e == Encode(Head(labels)) IN
              IF ~e.ok THEN e
              ELSE LET t == EncodeLabels(Tail(labels)) IN
                   IF ~t.ok THEN t ELSE Ok(l.val \o e.val \o t.val)

make_qname(domain) ==
    LET q == EncodeLabels(Split(domain)) IN
    IF ~q.ok THEN q ELSE Ok(q.val \o <<0>>)

\* ------------------------------------------------------------------------
\* make_request
\* ------------------------------------------------------------------------
make_request(msg_id, domain, operation, recursive) ==
    LET qname  == make_qname(domain)
        qtype  == 1
        qclass == 1
        header == make_header(msg_id, 1, operation, recursive)
        tail   == PackHs(<<qtype, qclass>>)
    IN IF ~qname.ok THEN qname
       ELSE IF ~header.ok THEN header
       ELSE Ok(header.val \o qname.val \o tail.val)

\* ------------------------------------------------------------------------
\* parse_header
\* ------------------------------------------------------------------------
parse_header(header) ==
    IF Len(header) # 12 THEN Raise("struct.error")
    ELSE LET line_two == unpack_H(Slice(header, 2, 4)) IN
         Ok([msg_id  |-> unpack_H(Slice(header, 0, 2)),
             qr      |-> (line_two \div 32768) % 2,
             opcode  |-> (line_two \div 2048) % 16,
             aa      |-> (line_two \div 1024) % 2,
             tc      |-> (line_two \div 512) % 2,
             rd      |-> (line_two \div 256) % 2,
             ra      |-> (line_two \div 128) % 2,
             rcode   |-> line_two % 16,
             qcount  |-> unpack_H(Slice(header, 4, 6)),
             ancount |-> unpack_H(Slice(header, 6, 8)),
             nscount |-> unpack_H(Slice(header, 8, 10)),
             arcount |-> unpack_H(Slice(header, 10, 12))])

\* ------------------------------------------------------------------------
\* parse_qname
\* ------------------------------------------------------------------------
RECURSIVE QnameLoop(_, _, _, _)
\* the while loop of parse_qname, entered with the loop variables domain, i, c
QnameLoop(qname, domain, i, c) ==
    IF c = 0 THEN Ok(<<domain, i + 1>>)
    ELSE LET label == Decode(Slice(qname, i + 1, i + c + 1))
             i2    == i + c + 1
         IN IF ~label.ok THEN label
            ELSE IF i2 >= Len(qname) THEN Raise("IndexError")
            ELSE LET c2 == At(qname, i2) IN
                 QnameLoop(qname,
                           IF c2 # 0 THEN domain \o label.val \o <<DOT>>
                                     ELSE domain \o label.val,
                           i2, c2)

parse_qname(qname) ==
    IF Len(qname) = 0 THEN Raise("IndexError")
    ELSE QnameLoop(qname, <<>>, 0, At(qname, 0))

\* ------------------------------------------------------------------------
\* parse_question
\* ------------------------------------------------------------------------
RECURSIVE QuestionLoop_NoFixedBytes(_, _, _, _)
\* mutant of QuestionLoop: qtype and qclass are read, but c is not moved past them
QuestionLoop_NoFixedBytes(res, n, questions, c) ==
    IF n = 0 THEN Ok(<<questions, c>>)
    ELSE LET q == parse_qname(SliceFrom(res, c)) IN
         IF ~q.ok THEN q
         ELSE LET c1     == c + q.val[2]
                  fields == Slice(res, c1, c1 + 4)
              IN IF Len(fields) # 4 THEN Raise("struct.error")
                 ELSE QuestionLoop_NoFixedBytes(res, n - 1,
                          Append(questions,
                                 [qname  |-> q.val[1],
                                  qtype  |-> unpack_H(Slice(fields, 0, 2)),
                                  qclass |-> unpack_H(Slice(fields, 2, 4))]),
                          c1)

RECURSIVE QuestionLoop(_, _, _, _)
\* the for loop of parse_question with n iterations left
QuestionLoop(res, n, questions, c) ==
    IF n = 0 THEN Ok(<<questions, c>>)
    ELSE LET q == parse_qname(SliceFrom(res, c)) IN
         IF ~q.ok THEN q
         ELSE LET c1     == c + q.val[2]
                  fields == Slice(res, c1, c1 + 4)
              IN IF Len(fields) # 4 THEN Raise("struct.error")
                 ELSE QuestionLoop(res, n - 1,
                          Append(questions,
                                 [qname  |-> q.val[1],
                                  qtype  |-> unpack_H(Slice(fields, 0, 2)),
                                  qclass |-> unpack_H(Slice(fields, 2, 4))]),
                          c1 + 4)

parse_question(res, qcount) == QuestionLoop(res, qcount, <<>>, 0)

\* ------------------------------------------------------------------------
\* parse_answer
\* ------------------------------------------------------------------------
\* '.'.join([str(b) for b in rdata])
DottedDecimal(rdata) == Join([i \in 1..Len(rdata) |-> Digits(rdata[i])])

\* mutant of Rdata: the class of the record is not looked at
Rdata_TypeOnly(atype, aclass, raw) ==
    IF atype = 1
    THEN [kind |-> "str", v |-> DottedDecimal(raw)]
    ELSE [kind |-> "bytes", v |-> raw]

\* the rdata of a record: text for an A/IN record, the bytes as they are otherwise
Rdata(atype, aclass, raw) ==
    IF atype = 1 /\ aclass = 1
    THEN [kind |-> "str", v |-> DottedDecimal(raw)]
    ELSE [kind |-> "bytes", v |-> raw]

\* rdata = res[c:c + rdlength]
ReadRdata(res, c, rdlength) == Slice(res, c, c + rdlength)

RECURSIVE AnswerLoop(_, _, _, _)
\* the for loop of parse_answer with n iterations left
AnswerLoop(res, n, answers, c) ==
    IF n = 0 THEN Ok(answers)
    ELSE LET q == parse_qname(SliceFrom(res, c)) IN
         IF ~q.ok THEN q
         ELSE LET c1     == c + q.val[2]
                  fields == Slice(res, c1, c1 + 10)
              IN IF Len(fields) # 10 THEN Raise("struct.error")
                 ELSE LET atype    == unpack_H(Slice(fields, 0, 2))
                          aclass   == unpack_H(Slice(fields, 2, 4))
                          ttl      == unpack_I(Slice(fields, 4, 8))
                          rdlength == unpack_H(Slice(fields, 8, 10))
                          c2       == c1 + 10
                          raw      == ReadRdata(res, c2, rdlength)
                      IN AnswerLoop(res, n - 1,
                             Append(answers,
                                    [name     |-> q.val[1],
                                     type     |-> atype,
                                     class    |-> aclass,
                                     ttl      |-> ttl,
                                     rdlength |-> rdlength,
                                     rdata    |-> Rdata(atype, aclass, raw)]),
                             c2 + rdlength)

parse_answer(res, ancount) == AnswerLoop(res, ancount, <<>>, 0)

\* ------------------------------------------------------------------------
\* State
\* ------------------------------------------------------------------------
VARIABLES
    pc,              \* where the run of main() is
    domain,          \* argv[1], a str
    msg,             \* the request handed to sendto
    wire,            \* what the name server put into the datagram main() receives
    res,             \* the bytes recv returned
    nrecv,           \* how many datagrams main() has received
    parsed_header,   \* parse_message: the result of parse_header
    parsed_question, \* parse_message: the questions parse_question returned
    qlength,         \* parse_message: the length parse_question returned
    ans_offset,      \* parse_message: the offset of the slice handed to parse_answer
    parsed_answer,   \* parse_message: the answers parse_answer returned
    exc,             \* the exception parse_message raised, "none" without one
    output,          \* the lines main() printed
    status,          \* the exit status of the process, -1 while it runs
    uncaught,        \* the exception that left main() unhandled, "none" without one
    qn,              \* a make_qname / parse_qname round: [pc, domain, wire, result]
    hd               \* a make_header / parse_header round: [pc, args, wire, result]

vars == <<pc, domain, msg, wire, res, nrecv, parsed_header, parsed_question, qlength,
          ans_offset, parsed_answer, exc, output, status, uncaught, qn, hd>>

main_vars == <<pc, domain, msg, wire, res, nrecv, parsed_header, parsed_question,
               qlength, ans_offset, parsed_answer, exc, output, status, uncaught>>

\* ------------------------------------------------------------------------
\* Inputs
\* ------------------------------------------------------------------------
\* the characters of the domains tried: 'a', '.', U+00E9 (2 bytes in UTF-8) and
\* U+20AC (3 bytes in UTF-8)
DomainChars == {97, DOT, 233, 8364}

RECURSIVE Strings(_, _)
\* the strings over the characters cs of length at most n
Strings(cs, n) ==
    IF n = 0 THEN {<<>>}
    ELSE LET shorter == Strings(cs, n - 1) IN
         shorter \cup {Append(s, c) : s \in shorter, c \in cs}

\* n times the character c
Rep(c, n) == [i \in 1..n |-> c]

\* the domains handed to make_qname: every short string, and labels of 63, 64, 255
\* and 256 characters
DomainInputs ==
    Strings(DomainChars, MaxLen)
        \cup {Rep(97, 63), Rep(97, 64), Rep(97, 63) \o <<DOT, 97>>,
              Rep(97, 255), Rep(97, 256)}

\* the opcode strings handed to make_header: the three names, in other cases too,
\* and strings that are none of them ("", "q", "update", "Status", "QUERY", "IQuery")
OpcodeInputs ==
    {STR_query, STR_iquery, STR_status,
     <<>>, <<113>>, <<117, 112, 100, 97, 116, 101>>,
     <<83, 116, 97, 116, 117, 115>>,
     <<81, 85, 69, 82, 89>>,
     <<73, 81, 117, 101, 114, 121>>}

\* the 16-bit values tried for msg_id and qdcount
Uint16Inputs == {0, 1, 255, 256, 4660, 32768, 65535}

\* the message ids randint may draw in main()
MsgIdInputs == {0, 65535}

\* the domains given to main() on the command line: "a", "a.aa"
ArgvDomains == {<<97>>, <<97, DOT, 97, 97>>}

\* --- the datagram of the name server ---
\* a length-prefixed name as RFC 1035 puts it on the wire
RECURSIVE WireLabels(_)
WireLabels(labels) ==
    IF labels = <<>> THEN <<>>
    ELSE LET e == Encode(Head(labels)).val IN
         <<Len(e)>> \o e \o WireLabels(Tail(labels))

WireName(name) == IF name = <<>> THEN <<0>> ELSE WireLabels(Split(name)) \o <<0>>

U16(v) == <<v \div 256, v % 256>>

U32(v) == <<v \div 16777216, (v \div 65536) % 256, (v \div 256) % 256, v % 256>>

WireQuestion(q) == WireName(q.qname) \o U16(q.qtype) \o U16(q.qclass)

WireAnswer(a) ==
    WireName(a.name) \o U16(a.type) \o U16(a.class) \o U32(a.ttl)
        \o U16(Len(a.rdata)) \o a.rdata

RECURSIVE Flatten(_)
Flatten(ss) == IF ss = <<>> THEN <<>> ELSE Head(ss) \o Flatten(Tail(ss))

\* the questions a datagram may carry: "a" A/IN and "é.a" AAAA/IN
QuestionInputs ==
    {[qname |-> <<97>>, qtype |-> 1, qclass |-> 1],
     [qname |-> <<233, DOT, 97>>, qtype |-> 28, qclass |-> 1]}

\* the answer records a datagram may carry: an A/IN record of 4 bytes, an A/IN
\* record of 2 bytes, an AAAA/IN record, an A/CH record, a CNAME/IN record of 0 bytes
AnswerInputs ==
    {[name |-> <<97>>, type |-> 1, class |-> 1, ttl |-> 300,
      rdata |-> <<93, 184, 216, 34>>],
     [name |-> <<97>>, type |-> 1, class |-> 1, ttl |-> 0,
      rdata |-> <<10, 0>>],
     [name |-> <<233, DOT, 97>>, type |-> 28, class |-> 1, ttl |-> 2147483647,
      rdata |-> <<1, 0, 255>>],
     [name |-> <<97>>, type |-> 1, class |-> 3, ttl |-> 65536,
      rdata |-> <<1, 2, 3, 4>>],
     [name |-> <<>>, type |-> 5, class |-> 1, ttl |-> 60,
      rdata |-> <<>>]}

RECURSIVE Lists(_, _)
\* the lists over the set s of length at most n
Lists(s, n) ==
    IF n = 0 THEN {<<>>}
    ELSE LET shorter == Lists(s, n - 1) IN
         shorter \cup {Append(l, x) : l \in shorter, x \in s}

\* the rcode values of a header
Rcodes == 0..15

\* the whole message of a datagram description w, before it is cut
WireMessage(w) ==
    U16(4660) \o U16(33152 + w.rcode) \o U16(Len(w.questions)) \o U16(Len(w.answers))
        \o U16(0) \o U16(0)
        \o Flatten([i \in 1..Len(w.questions) |-> WireQuestion(w.questions[i])])
        \o Flatten([i \in 1..Len(w.answers) |-> WireAnswer(w.answers[i])])

\* the datagram: the message without its last w.cut bytes
WireBytes(w) == SubSeq(WireMessage(w), 1, Len(WireMessage(w)) - w.cut)

\* the rcodes tried with the longer messages: no error, name error, an unassigned one
LongMessageRcodes == {0, 3, 9}

\* the datagrams a name server may send: a message with any rcode and at most one
\* question and one answer, or a message with one of LongMessageRcodes and up to MaxQ
\* questions and MaxA answers; up to MaxCut bytes are missing at its end
WireInputs ==
    {w \in [rcode : Rcodes, questions : Lists(QuestionInputs, 1),
            answers : Lists(AnswerInputs, 1), cut : 0..MaxCut]
           \cup [rcode : LongMessageRcodes, questions : Lists(QuestionInputs, MaxQ),
                 answers : Lists(AnswerInputs, MaxA), cut : 0..MaxCut] :
        w.cut <= Len(WireMessage(w))}

NoWire == [rcode |-> 0, questions |-> <<>>, answers |-> <<>>, cut |-> 0]

NoHeader == [msg_id |-> 0, qr |-> 0, opcode |-> 0, aa |-> 0, tc |-> 0, rd |-> 0,
             ra |-> 0, rcode |-> 0, qcount |-> 0, ancount |-> 0, nscount |-> 0,
             arcount |-> 0]

\* ------------------------------------------------------------------------
\* Exceptions
\* ------------------------------------------------------------------------
\* mutant of RcodeError: the branch for rcode 5 is missing
RcodeError_NoRefused(rcode) ==
    CASE rcode = 1 -> "ValueError: Format error"
      [] rcode = 2 -> "ValueError: Server failure"
      [] rcode = 3 -> "ValueError: Name Error"
      [] rcode = 4 -> "ValueError: Not Implemented"
      [] OTHER -> "none"

\* mutant of RcodeError: every rcode above 4 is refused
RcodeError_RefusedAbove4(rcode) ==
    CASE rcode = 1 -> "ValueError: Format error"
      [] rcode = 2 -> "ValueError: Server failure"
      [] rcode = 3 -> "ValueError: Name Error"
      [] rcode = 4 -> "ValueError: Not Implemented"
      [] rcode >= 5 -> "ValueError: Refused"
      [] OTHER -> "none"

\* the ValueError parse_message raises for an rcode, by its message
RcodeError(rcode) ==
    CASE rcode = 1 -> "ValueError: Format error"
      [] rcode = 2 -> "ValueError: Server failure"
      [] rcode = 3 -> "ValueError: Name Error"
      [] rcode = 4 -> "ValueError: Not Implemented"
      [] rcode = 5 -> "ValueError: Refused"
      [] OTHER -> "none"

RcodeErrors == {RcodeError(r) : r \in 1..5}

\* isinstance(e, ValueError): UnicodeDecodeError is a subclass of ValueError,
\* struct.error and IndexError are not
IsValueError(e) == e \in RcodeErrors \cup {"UnicodeDecodeError"}

\* ------------------------------------------------------------------------
\* main() and parse_message
\* ------------------------------------------------------------------------
IdleQn == [pc |-> "idle", domain |-> <<>>, wire |-> Raise("none"), result |-> Raise("none")]

IdleHd == [pc |-> "idle", args |-> <<>>, wire |-> Raise("none"), result |-> Raise("none")]

IdleMain ==
    /\ pc = "idle"
    /\ domain = <<>>
    /\ msg = <<>>
    /\ wire = NoWire
    /\ res = <<>>
    /\ nrecv = 0
    /\ parsed_header = NoHeader
    /\ parsed_question = <<>>
    /\ qlength = -1
    /\ ans_offset = -1
    /\ parsed_answer = <<>>
    /\ exc = "none"
    /\ output = <<>>
    /\ status = -1
    /\ uncaught = "none"

Init ==
    /\ pc = "start"
    /\ domain \in ArgvDomains
    /\ msg = <<>>
    /\ wire = NoWire
    /\ res = <<>>
    /\ nrecv = 0
    /\ parsed_header = NoHeader
    /\ parsed_question = <<>>
    /\ qlength = -1
    /\ ans_offset = -1
    /\ parsed_answer = <<>>
    /\ exc = "none"
    /\ output = <<>>
    /\ status = -1
    /\ uncaught = "none"
    /\ qn = IdleQn
    /\ hd = IdleHd

\* msg = make_request(domain, recursive=True); s.sendto(msg, (NS, 53))
Send ==
    /\ pc = "start"
    /\ \E msg_id \in MsgIdInputs :
           LET m == make_request(msg_id, domain, STR_query, TRUE) IN
           /\ m.ok
           /\ msg' = m.val
    /\ pc' = "sent"
    /\ UNCHANGED <<domain, wire, res, nrecv, parsed_header, parsed_question, qlength,
                   ans_offset, parsed_answer, exc, output, status, uncaught, qn, hd>>

\* ready = select([s], [], [], TIMEOUT) with ready[0] empty: print('Timed out.'); exit(1)
TimedOut ==
    /\ pc = "sent"
    /\ output' = Append(output, <<"Timed out.">>)
    /\ status' = 1
    /\ pc' = "exited"
    /\ UNCHANGED <<domain, msg, wire, res, nrecv, parsed_header, parsed_question,
                   qlength, ans_offset, parsed_answer, exc, uncaught, qn, hd>>

\* ready[0] holds the socket: res = s.recv(512)
Recv ==
    /\ pc = "sent"
    /\ \E w \in WireInputs :
           /\ wire' = w
           /\ res' = Slice(WireBytes(w), 0, 512)
    /\ nrecv' = nrecv + 1
    /\ pc' = "received"
    /\ UNCHANGED <<domain, msg, parsed_header, parsed_question, qlength, ans_offset,
                   parsed_answer, exc, output, status, uncaught, qn, hd>>

\* parse_message: header = res[:12]; parsed_header = parse_header(header)
PM_Header ==
    /\ pc = "received"
    /\ LET h == parse_header(Slice(res, 0, 12)) IN
       IF h.ok
       THEN /\ parsed_header' = h.val
            /\ pc' = "pm_rcode"
            /\ exc' = exc
       ELSE /\ exc' = h.exc
            /\ pc' = "pm_raised"
            /\ parsed_header' = parsed_header
    /\ UNCHANGED <<domain, msg, wire, res, nrecv, parsed_question, qlength, ans_offset,
                   parsed_answer, output, status, uncaught, qn, hd>>

\* parse_message: the if/elif chain over parsed_header['rcode']
PM_Rcode ==
    /\ pc = "pm_rcode"
    /\ IF RcodeError(parsed_header.rcode) # "none"
       THEN /\ exc' = RcodeError(parsed_header.rcode)
            /\ pc' = "pm_raised"
       ELSE /\ pc' = "pm_question"
            /\ exc' = exc
    /\ UNCHANGED <<domain, msg, wire, res, nrecv, parsed_header, parsed_question,
                   qlength, ans_offset, parsed_answer, output, status, uncaught, qn, hd>>

\* parse_message: parsed_question, qlength = parse_question(res[12:], qcount)
PM_Question ==
    /\ pc = "pm_question"
    /\ LET q == parse_question(SliceFrom(res, 12), parsed_header.qcount) IN
       IF q.ok
       THEN /\ parsed_question' = q.val[1]
            /\ qlength' = q.val[2]
            /\ pc' = "pm_answer"
            /\ exc' = exc
       ELSE /\ exc' = q.exc
            /\ pc' = "pm_raised"
            /\ UNCHANGED <<parsed_question, qlength>>
    /\ UNCHANGED <<domain, msg, wire, res, nrecv, parsed_header, ans_offset,
                   parsed_answer, output, status, uncaught, qn, hd>>

\* the offset at which parse_message slices res for parse_answer
AnswerOffset(ql) == 12 + ql

\* parse_message: parsed_answer = parse_answer(res[12 + qlength:], ancount); return
PM_Answer ==
    /\ pc = "pm_answer"
    /\ ans_offset' = AnswerOffset(qlength)
    /\ LET a == parse_answer(SliceFrom(res, AnswerOffset(qlength)), parsed_header.ancount) IN
       IF a.ok
       THEN /\ parsed_answer' = a.val
            /\ pc' = "pm_returned"
            /\ exc' = exc
       ELSE /\ exc' = a.exc
            /\ pc' = "pm_raised"
            /\ parsed_answer' = parsed_answer
    /\ UNCHANGED <<domain, msg, wire, res, nrecv, parsed_header, parsed_question,
                   qlength, output, status, uncaught, qn, hd>>

\* the except clause of main(): which exceptions of parse_message it catches
Caught(e) == IsValueError(e)

\* except ValueError as e: print(str(e)); exit(1)
Main_Except ==
    /\ pc = "pm_raised"
    /\ Caught(exc)
    /\ output' = Append(output, <<"error", exc>>)
    /\ status' = 1
    /\ pc' = "exited"
    /\ UNCHANGED <<domain, msg, wire, res, nrecv, parsed_header, parsed_question,
                   qlength, ans_offset, parsed_answer, exc, uncaught, qn, hd>>

\* an exception of parse_message that is no ValueError passes the except clause and
\* leaves main(): the interpreter prints the traceback and ends with status 1
Main_Propagate ==
    /\ pc = "pm_raised"
    /\ ~Caught(exc)
    /\ uncaught' = exc
    /\ status' = 1
    /\ pc' = "exited"
    /\ UNCHANGED <<domain, msg, wire, res, nrecv, parsed_header, parsed_question,
                   qlength, ans_offset, parsed_answer, exc, output, qn, hd>>

\* answer = parsed['answers'][0]; print(f"IPv4 address for {domain}: ...")
Main_Print ==
    /\ pc = "pm_returned"
    /\ IF Len(parsed_answer) = 0
       THEN /\ uncaught' = "IndexError"
            /\ status' = 1
            /\ output' = output
       ELSE /\ output' = Append(output, <<"IPv4 address", domain,
                                          parsed_answer[1].rdata, parsed_answer[1].ttl>>)
            /\ status' = 0
            /\ uncaught' = uncaught
    /\ pc' = "exited"
    /\ UNCHANGED <<domain, msg, wire, res, nrecv, parsed_header, parsed_question,
                   qlength, ans_offset, parsed_answer, exc, qn, hd>>

Next ==
    \/ Send
    \/ TimedOut
    \/ Recv
    \/ PM_Header
    \/ PM_Rcode
    \/ PM_Question
    \/ PM_Answer
    \/ Main_Except
    \/ Main_Propagate
    \/ Main_Print

Spec == Init /\ [][Next]_vars

\* ------------------------------------------------------------------------
\* make_qname followed by parse_qname
\* ------------------------------------------------------------------------
InitQname ==
    /\ IdleMain
    /\ hd = IdleHd
    /\ \E d \in DomainInputs :
           qn = [pc |-> "input", domain |-> d, wire |-> Raise("none"),
                 result |-> Raise("none")]

\* qname = make_qname(domain)
QN_Make ==
    /\ qn.pc = "input"
    /\ qn' = [qn EXCEPT !.pc = "made", !.wire = make_qname(qn.domain)]
    /\ UNCHANGED <<main_vars, hd>>

\* parse_qname(qname) on the bytes make_qname returned
QN_Parse ==
    /\ qn.pc = "made"
    /\ qn.wire.ok
    /\ qn' = [qn EXCEPT !.pc = "parsed", !.result = parse_qname(qn.wire.val)]
    /\ UNCHANGED <<main_vars, hd>>

NextQname == QN_Make \/ QN_Parse

SpecQname == InitQname /\ [][NextQname]_vars

\* ------------------------------------------------------------------------
\* make_header followed by parse_header
\* ------------------------------------------------------------------------
InitHeader ==
    /\ IdleMain
    /\ qn = IdleQn
    /\ \E i \in Uint16Inputs, n \in Uint16Inputs, o \in OpcodeInputs, r \in BOOLEAN :
           hd = [pc |-> "input",
                 args |-> [msg_id |-> i, qdcount |-> n, opcode |-> o, recursion |-> r],
                 wire |-> Raise("none"), result |-> Raise("none")]

\* header = make_header(msg_id, qdcount, opcode, recursion)
HD_Make ==
    /\ hd.pc = "input"
    /\ hd' = [hd EXCEPT !.pc = "made",
                        !.wire = make_header(hd.args.msg_id, hd.args.qdcount,
                                             hd.args.opcode, hd.args.recursion)]
    /\ UNCHANGED <<main_vars, qn>>

\* parse_header(header) on the bytes make_header returned
HD_Parse ==
    /\ hd.pc = "made"
    /\ hd.wire.ok
    /\ hd' = [hd EXCEPT !.pc = "parsed", !.result = parse_header(hd.wire.val)]
    /\ UNCHANGED <<main_vars, qn>>

NextHeader == HD_Make \/ HD_Parse

SpecHeader == InitHeader /\ [][NextHeader]_vars

\* ------------------------------------------------------------------------
\* Properties
\* ------------------------------------------------------------------------
\* the three opcode names of the interface and their numbers
OpcodeNumber(o) ==
    CASE o = STR_query -> 0
      [] o = STR_iquery -> 1
      [] o = STR_status -> 2

\* s is the lower-case name t, written in any mix of cases
SameIgnoringCase(s, t) ==
    /\ Len(s) = Len(t)
    /\ \A i \in 1..Len(s) : s[i] = t[i] \/ s[i] = t[i] - 32

\* every label of d has 1 to 63 characters, each of which can be encoded
LabelsValid(d) ==
    \A i \in 1..Len(Split(d)) :
        /\ Len(Split(d)[i]) \in 1..63
        /\ \A k \in 1..Len(Split(d)[i]) : EncodeChar(Split(d)[i][k]).ok

\* C1: for every domain of labels of 1 to 63 encodable characters,
\* parse_qname(make_qname(d)) returns (d, len(make_qname(d))).
C1_QnameRoundTrip ==
    LabelsValid(qn.domain) =>
        /\ qn.pc \in {"made", "parsed"} => qn.wire.ok
        /\ qn.pc = "parsed" =>
               /\ qn.result.ok
               /\ qn.result.val = <<qn.domain, Len(qn.wire.val)>>

\* C2: parse_header(make_header(id, qdcount, opcode, recursion)) gives back id,
\* qdcount, rd = 1 iff recursion, the number of the opcode, and qr = tc = aa = 0,
\* for the opcodes query, iquery and status; the header is 12 bytes long.
C2_HeaderRoundTrip ==
    (hd.pc \in {"made", "parsed"} /\ hd.args.opcode \in {STR_query, STR_iquery, STR_status}) =>
        /\ hd.wire.ok
        /\ Len(hd.wire.val) = 12
        /\ hd.pc = "parsed" =>
               /\ hd.result.ok
               /\ hd.result.val.msg_id = hd.args.msg_id
               /\ hd.result.val.qcount = hd.args.qdcount
               /\ hd.result.val.rd = 1 <=> hd.args.recursion
               /\ hd.result.val.rd \in {0, 1}
               /\ hd.result.val.opcode = OpcodeNumber(hd.args.opcode)
               /\ hd.result.val.qr = 0
               /\ hd.result.val.tc = 0
               /\ hd.result.val.aa = 0

C2_Witness ==
    /\ hd.pc = "parsed"
    /\ hd.args.opcode = STR_iquery
    /\ hd.args.recursion
    /\ hd.args.msg_id = 65535
    /\ hd.args.qdcount = 256
    /\ hd.result.val.opcode = 1
    /\ hd.result.val.rd = 1

\* the fields of a made header that no argument sets are 0: qr, aa, tc, ra, the
\* reserved bits, rcode, ancount, nscount, arcount
FixedFieldsZero ==
    /\ hd.result.val.qr = 0
    /\ hd.result.val.aa = 0
    /\ hd.result.val.tc = 0
    /\ hd.result.val.ra = 0
    /\ (unpack_H(Slice(hd.wire.val, 2, 4)) \div 16) % 8 = 0
    /\ hd.result.val.rcode = 0
    /\ hd.result.val.ancount = 0
    /\ hd.result.val.nscount = 0
    /\ hd.result.val.arcount = 0

\* C9 as stated: the opcode bits are 0 for 'query', 1 for 'iquery', 2 for 'status'
\* and 2 for every other opcode value; no opcode makes the encode fail; the other
\* fields are 0.
C9_OpcodeExactNames ==
    hd.pc \in {"made", "parsed"} =>
        /\ hd.wire.ok
        /\ hd.pc = "parsed" =>
               /\ hd.result.val.opcode =
                      (IF hd.args.opcode = STR_query THEN 0
                       ELSE IF hd.args.opcode = STR_iquery THEN 1
                       ELSE 2)
               /\ FixedFieldsZero

\* C9 amended: the opcode string is compared without regard to case: the opcode
\* bits are 0 for 'query', 1 for 'iquery' in any mix of cases, and 2 for every
\* other string; no opcode string makes the encode fail; the other fields are 0.
C9_OpcodeIgnoringCase ==
    hd.pc \in {"made", "parsed"} =>
        /\ hd.wire.ok
        /\ hd.pc = "parsed" =>
               /\ hd.result.val.opcode =
                      (IF SameIgnoringCase(hd.args.opcode, STR_query) THEN 0
                       ELSE IF SameIgnoringCase(hd.args.opcode, STR_iquery) THEN 1
                       ELSE 2)
               /\ hd.result.val.opcode \in {0, 1, 2}
               /\ FixedFieldsZero

\* make_header(..., opcode='QUERY') has been parsed back
C9_Witness ==
    /\ hd.pc = "parsed"
    /\ hd.args.opcode = <<81, 85, 69, 82, 89>>
    /\ hd.result.val.opcode = 0

\* --- parse_message ---
\* main() has received a datagram
Received == nrecv = 1

\* the datagram holds a whole header
HeaderPresent == Len(res) >= 12

\* the rcode bits of the datagram's header
WireRcode == At(res, 3) % 16

\* parse_message is past its rcode check, or has raised
PastRcode == pc \in {"pm_question", "pm_answer", "pm_returned", "pm_raised", "exited"}

\* the error parse_message is to raise for the rcodes 1 to 5
ExpectedRcodeError(r) ==
    <<"ValueError: Format error", "ValueError: Server failure", "ValueError: Name Error",
      "ValueError: Not Implemented", "ValueError: Refused">>[r]

\* C3: a datagram whose header carries rcode 1..5 makes parse_message raise the
\* error of that rcode before any question or answer is decoded, whatever follows
\* the header.
C3_RcodeErrorFirst ==
    (Received /\ HeaderPresent /\ WireRcode \in 1..5) =>
        /\ pc \in {"received", "pm_rcode", "pm_raised", "exited"}
        /\ PastRcode => exc = ExpectedRcodeError(WireRcode)
        /\ parsed_question = <<>>
        /\ qlength = -1
        /\ ans_offset = -1
        /\ parsed_answer = <<>>

\* rcode 3 with a cut answer section behind the header has raised the name error
C3_Witness ==
    /\ pc = "pm_raised"
    /\ HeaderPresent
    /\ WireRcode = 3
    /\ exc = "ValueError: Name Error"
    /\ Len(wire.answers) = 2
    /\ wire.cut > 0

RECURSIVE SumLen(_)
\* the total length of the byte strings of a list
SumLen(ss) == IF ss = <<>> THEN 0 ELSE Len(Head(ss)) + SumLen(Tail(ss))

\* the length of the question section the name server wrote: each question's name
\* and 4 bytes
QuestionSectionLen ==
    SumLen([i \in 1..Len(wire.questions) |-> WireName(wire.questions[i].qname)])
        + 4 * Len(wire.questions)

\* the question section is whole in the datagram
QuestionsPresent == Len(res) >= 12 + QuestionSectionLen

\* parse_message is past its call of parse_question
PastQuestion == pc \in {"pm_answer", "pm_returned", "pm_raised", "exited"}

\* C4: on a well-formed question section parse_question returns the questions in
\* wire order and the sum of (qname length + 4) as the length; parse_message
\* decodes the answers from offset 12 + that length.
C4_QuestionLength ==
    (Received /\ QuestionsPresent /\ WireRcode \notin 1..5 /\ PastQuestion) =>
        /\ Len(parsed_question) = Len(wire.questions)
        /\ \A i \in 1..Len(wire.questions) :
               parsed_question[i] = [qname  |-> wire.questions[i].qname,
                                     qtype  |-> wire.questions[i].qtype,
                                     qclass |-> wire.questions[i].qclass]
        /\ qlength = QuestionSectionLen
        /\ pc # "pm_answer" => ans_offset = 12 + QuestionSectionLen

\* two different questions and an answer have been decoded
C4_Witness ==
    /\ pc = "pm_returned"
    /\ Len(parsed_question) = 2
    /\ parsed_question[1].qtype = 28
    /\ parsed_question[2].qtype = 1
    /\ qlength = 17
    /\ ans_offset = 29
    /\ Len(parsed_answer) = 1

\* parse_answer has returned its list to parse_message
AnswersReturned == Received /\ pc \in {"pm_returned", "exited"} /\ exc = "none"

\* the rdata bytes of record i that are in the datagram: all of them, but for the
\* last record, which lacks the bytes cut off the datagram
PresentRdata(i) ==
    IF i = Len(wire.answers)
    THEN SubSeq(wire.answers[i].rdata, 1, Len(wire.answers[i].rdata) - wire.cut)
    ELSE wire.answers[i].rdata

IsAIN(a) == a.type = 1 /\ a.class = 1

\* C5: a returned record that is not A/IN has the raw bytes behind its 10 fixed
\* bytes as rdata, exactly rdlength of them, however many bytes the buffer holds.
C5_RawRdataOfRdlength ==
    AnswersReturned =>
        \A i \in 1..Len(parsed_answer) :
            ~IsAIN(parsed_answer[i]) =>
                /\ parsed_answer[i].rdata = [kind |-> "bytes", v |-> wire.answers[i].rdata]
                /\ Len(parsed_answer[i].rdata.v) = parsed_answer[i].rdlength

\* the number of '.' in a string
Dots(s) == Cardinality({k \in 1..Len(s) : s[k] = DOT})

RECURSIVE DecimalValue(_)
\* the number a string of decimal digits writes
DecimalValue(ds) ==
    IF Len(ds) = 1 THEN ds[1] - 48
    ELSE DecimalValue(SubSeq(ds, 1, Len(ds) - 1)) * 10 + (ds[Len(ds)] - 48)

\* s writes the number n in decimal, without sign or leading zero
WritesOctet(s, n) ==
    /\ Len(s) >= 1
    /\ \A k \in 1..Len(s) : s[k] \in 48..57
    /\ Len(s) > 1 => s[1] # 48
    /\ DecimalValue(s) = n

\* s is the bytes raw written as decimal octets joined by '.'
WritesOctets(s, raw) ==
    IF raw = <<>> THEN s = <<>>
    ELSE /\ Len(Split(s)) = Len(raw)
         /\ \A k \in 1..Len(raw) : WritesOctet(Split(s)[k], raw[k])

C7_ShortBufferFails ==
    (Received /\ wire.cut > 0) => pc # "pm_returned"

\* C8: with rcode 0 or 6..15 parse_message raises no response-code error; it
\* decodes qcount questions and ancount answers and returns the message with the
\* rcode of the header; a whole message is always returned.
C8_OtherRcodesPass ==
    (Received /\ HeaderPresent /\ WireRcode \notin 1..5) =>
        /\ exc \notin {ExpectedRcodeError(r) : r \in 1..5}
        /\ pc = "pm_returned" =>
               /\ parsed_header.rcode = WireRcode
               /\ Len(parsed_question) = parsed_header.qcount
               /\ Len(parsed_answer) = parsed_header.ancount
        /\ wire.cut = 0 =>
               /\ exc = "none"
               /\ pc # "pm_raised"
               /\ PastRcode => parsed_header.rcode = WireRcode

\* a message with rcode 9, a question and two answers has been returned
C8_Witness ==
    /\ pc = "pm_returned"
    /\ parsed_header.rcode = 9
    /\ Len(parsed_question) = 1
    /\ Len(parsed_answer) = 2

\* C10: a run of main() that sent its query ends timed out (status 1, nothing
\* received), or with a printed message and a nonzero status, or with the first
\* answer printed; no exception of the decoding leaves main(), and at most one
\* datagram is received.
C10_MainOutcomes ==
    /\ nrecv <= 1
    /\ pc = "exited" =>
           /\ uncaught = "none"
           /\ Len(output) = 1
           /\ \/ nrecv = 0 /\ output[1] = <<"Timed out.">> /\ status = 1
              \/ nrecv = 1 /\ output[1][1] = "error" /\ status # 0
              \/ /\ nrecv = 1
                 /\ Len(parsed_answer) >= 1
                 /\ output[1] = <<"IPv4 address", domain, parsed_answer[1].rdata,
                                  parsed_answer[1].ttl>>

====
